---- MODULE Spec2Model ----
(***************************************************************************)
(* State-machine model of the web PagerView component                      *)
(* (src/src/PagerView.web.tsx): its refs, the DOM state of the scroller    *)
(* element it drives, the browser timers and frames it schedules, and the  *)
(* events it delivers to its observers.                                    *)
(*                                                                         *)
(* Nullable values are sequences of length 0 (null) or 1 (the value).      *)
(* Time is counted in the units of window.setTimeout's delay.              *)
(***************************************************************************)
EXTENDS Integers, Sequences, FiniteSets, TLC

VARIABLES
    props,            \* the props of the latest render (layoutDirection, orientation, pageMargin, pageCount)
    el,               \* scrollerRef.current is attached (TRUE) or null (FALSE)
    clientWidth,      \* el.clientWidth
    scrollLeft,       \* el.scrollLeft (signed; <= 0 under RTL)
    anim,             \* target of the smooth scroll in progress: {} or {target}
    scrollPending,    \* the browser owes the element a 'scroll' event
    captured,         \* pointer ids the element holds capture of
    bodyUserSelect,   \* document.body.style.userSelect
    cursor,           \* el.style.cursor
    scrollEnabledRef, \* scrollEnabledRef.current
    draggingRef,      \* draggingRef.current
    startRef,         \* startRef.current: <<>> or <<[x, sl]>>
    restoreRef,       \* restoreRef.current: <<>> or <<[userSelect, cursor]>>
    currentIndexRef,  \* currentIndexRef.current
    settleTimer,      \* settleTimer.current: "null", "live" (id of a pending timer) or "stale" (id of a fired timer)
    timers,           \* window's pending timeouts, oldest first: [left, pageCount]
    raf,              \* the pending requestAnimationFrame callback of the mount effect: <<>> or <<[initialPage, pageCount]>>
    burst,            \* ages of the first and last passive scroll tick since the last settle: <<>> or <<[first, last]>>
    handler,          \* the latest handler that did something observable: <<>>, <<name>> or <<name, index>>
    out,              \* what it did: events delivered, scroll commands issued, exception thrown
    lastState,        \* the latest onPageScrollStateChanged event delivered ("none" before the first)
    lastSelected      \* the latest onPageSelected position delivered: <<>> or <<position>>

vars == <<props, el, clientWidth, scrollLeft, anim, scrollPending, captured,
          bodyUserSelect, cursor, scrollEnabledRef, draggingRef, startRef, restoreRef,
          currentIndexRef, settleTimer, timers, raf, burst, handler, out, lastState,
          lastSelected>>

----------------------------------------------------------------------------
(* Bounds *)

MaxPages == 2
MaxX == 2
Slices == 2

Pointers == {1, 2}
Extents == {0, 2}
Margins == {0, 1}
PageCounts == 0 .. MaxPages
Indices == {0 - 1, 1, MaxPages + 1}
InitialPages == {0, MaxPages + 1}
ClientXs == 0 .. MaxX
DownXs == {0, MaxX}

SettleDelay == 120
TimeStep == SettleDelay \div Slices
AgeCap == SettleDelay + TimeStep

----------------------------------------------------------------------------
(* Arithmetic *)

Max(a, b) == IF a >= b THEN a ELSE b

Min(a, b) == IF a <= b THEN a ELSE b

Abs(v) == IF v < 0 THEN 0 - v ELSE v

clamp(v, a, b) == Max(a, Min(b, v))

\* Math.round(num / den) for num >= 0, den > 0: the nearest integer, a half rounds up.
MathRound(num, den) == (2 * num + den) \div (2 * den)

\* Math.floor(num / den) for num >= 0, den > 0.
MathFloor(num, den) == num \div den

LastN(s, n) == IF Len(s) <= n THEN s ELSE SubSeq(s, Len(s) - n + 1, Len(s))

SelectSeq2(s, t) == SelectSeq(s, LAMBDA e : e.type = t)

----------------------------------------------------------------------------
(* Observable outputs of a handler *)

EState(s) == [type |-> "state", pageScrollState |-> s]

ESelected(i) == [type |-> "selected", position |-> i]

EPageScroll(p, n, d) == [type |-> "pageScroll", position |-> p, num |-> n, den |-> d]

EScrollTo(l, b) == [type |-> "scrollTo", left |-> l, behavior |-> b]

EThrow == [type |-> "throw"]

StatesOf(o) == [k \in 1 .. Len(SelectSeq2(o, "state")) |-> SelectSeq2(o, "state")[k].pageScrollState]

SelectedOf(o) == [k \in 1 .. Len(SelectSeq2(o, "selected")) |-> SelectSeq2(o, "selected")[k].position]

CommandsOf(o) == SelectSeq2(o, "scrollTo")

\* The handler delivered o: the observers remember the latest event of each kind.
Deliver(h, o) ==
    /\ handler' = IF o = <<>> THEN <<>> ELSE h
    /\ out' = o
    /\ lastState' = IF StatesOf(o) = <<>> THEN lastState ELSE StatesOf(o)[Len(StatesOf(o))]
    /\ lastSelected' = IF SelectedOf(o) = <<>> THEN lastSelected ELSE LastN(SelectedOf(o), 1)

\* A step of the environment: no handler ran.
Quiet == handler' = <<>> /\ out' = <<>> /\ UNCHANGED <<lastState, lastSelected>>

----------------------------------------------------------------------------
(* The scroller element: layout and scrolling as the browser does them *)

Horizontal == props.orientation = "horizontal"

Rtl == props.layoutDirection = "rtl"

\* extent + (pageMargin || 0)
StepOf(w) == w + props.pageMargin

Step == StepOf(clientWidth)

\* Math.abs(el.scrollLeft)
Raw == Abs(scrollLeft)

\* scrollWidth - clientWidth of the flex row: every page is 100% wide plus its
\* right margin; a column (vertical orientation) does not overflow horizontally.
MaxScrollOf(w, n) == IF Horizontal THEN Max(0, n * StepOf(w) - w) ELSE 0

\* The browser keeps scrollLeft in [0, max] (LTR) or [-max, 0] (RTL).
ClampScrollOf(v, w, n) ==
    IF Rtl THEN clamp(v, 0 - MaxScrollOf(w, n), 0) ELSE clamp(v, 0, MaxScrollOf(w, n))

ClampScroll(v) == ClampScrollOf(v, clientWidth, props.pageCount)

ScrollRange ==
    IF Rtl THEN (0 - MaxScrollOf(clientWidth, props.pageCount)) .. 0
    ELSE 0 .. MaxScrollOf(clientWidth, props.pageCount)

\* el.scrollTo({left, behavior}): 'auto' jumps, 'smooth' starts an animation
\* that replaces the one in progress.
DomScrollTo(left, animated) ==
    IF animated
    THEN /\ scrollLeft' = scrollLeft
         /\ anim' = IF ClampScroll(left) = scrollLeft THEN {} ELSE {ClampScroll(left)}
         /\ scrollPending' = scrollPending
    ELSE /\ scrollLeft' = ClampScroll(left)
         /\ anim' = {}
         /\ scrollPending' = (scrollPending \/ ClampScroll(left) # scrollLeft)

\* el.scrollLeft = v: jumps and aborts a smooth scroll in progress.
DomSetScrollLeft(v) ==
    /\ scrollLeft' = ClampScroll(v)
    /\ anim' = {}
    /\ scrollPending' = (scrollPending \/ ClampScroll(v) # scrollLeft)

NoScroll == UNCHANGED <<scrollLeft, anim, scrollPending>>

----------------------------------------------------------------------------
(* The component's helpers *)

\* Mutant: the index is capped above but not floored at 0.
ScrollToIndexNoFloor(index, pc) == Min(index, Max(0, pc - 1))

\* clamp(index, 0, Math.max(0, pageCount - 1)), with the pageCount of the
\* render whose closure runs.
ScrollToIndex(index, pc) == clamp(index, 0, Max(0, pc - 1))

\* Mutant: the offset is not negated under RTL.
ScrollToLeftLtrOnly(i) == i * Step

\* layoutDirection === 'rtl' ? -pos : pos, with pos = i * step
ScrollToLeft(i) == IF Rtl THEN 0 - i * Step ELSE i * Step

\* Mutant: onPageSelected is delivered on every navigation.
SelectedEventsAlways(i) == <<ESelected(i)>>

\* if (currentIndexRef.current !== i) onPageSelected({position: i})
SelectedEvents(i) == IF currentIndexRef # i THEN <<ESelected(i)>> ELSE <<>>

\* scrollTo(index, animated) run by a closure of the render that had pc pages;
\* pre and post are what the caller delivers around it.
scrollTo(h, index, animated, pc, pre, post) ==
    IF ~el
    THEN /\ NoScroll
         /\ UNCHANGED currentIndexRef
         /\ Deliver(h, pre \o post)
    ELSE /\ DomScrollTo(ScrollToLeft(ScrollToIndex(index, pc)), animated)
         /\ currentIndexRef' = ScrollToIndex(index, pc)
         /\ Deliver(h, pre
                       \o <<EScrollTo(ScrollToLeft(ScrollToIndex(index, pc)),
                                      IF animated THEN "smooth" ELSE "auto")>>
                       \o SelectedEvents(ScrollToIndex(index, pc))
                       \o post)

\* Mutant: the page is found with Math.floor, not Math.round.
SnapIndexFloor(raw, step, pc) == clamp(MathFloor(raw, step), 0, Max(0, pc - 1))

\* clamp(Math.round(raw / step), 0, Math.max(0, pageCount - 1))
SnapIndex(raw, step, pc) == clamp(MathRound(raw, step), 0, Max(0, pc - 1))

\* Mutant: the snap returns before it scrolls.
snapToNearestSkipped(h, animated, pc, pre, post) ==
    /\ NoScroll
    /\ UNCHANGED currentIndexRef
    /\ Deliver(h, pre \o post)

\* snapToNearest(animated), called with the element attached.
snapToNearest(h, animated, pc, pre, post) ==
    IF Step = 0
    THEN /\ NoScroll
         /\ UNCHANGED currentIndexRef
         /\ Deliver(h, pre \o post)
    ELSE scrollTo(h, SnapIndex(Raw, Step, pc), animated, pc, pre, post)

\* Mutant: the position is found with Math.round, not Math.floor.
emitPageScrollRound(sl) ==
    IF Step = 0 THEN <<>>
    ELSE <<EPageScroll(MathRound(Abs(sl), Step),
                       Abs(sl) - MathRound(Abs(sl), Step) * Step,
                       Step)>>

\* emitPageScroll() with el.scrollLeft = sl: the onPageScroll events delivered
\* (the host registers all three observers).
emitPageScroll(sl) ==
    IF Step = 0 THEN <<>>
    ELSE <<EPageScroll(MathFloor(Abs(sl), Step),
                       Abs(sl) - MathFloor(Abs(sl), Step) * Step,
                       Step)>>

\* Mutant: clearSettleTimer() leaves the pending timeout in place.
ClearSettleTimerKeeps(ts) == ts

\* window's timeouts after clearSettleTimer(): clearTimeout of a fired id does nothing.
ClearSettleTimer(ts) ==
    IF settleTimer = "live" THEN SubSeq(ts, 1, Len(ts) - 1) ELSE ts

\* window's timeouts after startSettleTimer(): the callback keeps the closure
\* of the render that scheduled it.
StartSettleTimer(ts) ==
    Append(ClearSettleTimer(ts), [left |-> SettleDelay, pageCount |-> props.pageCount])

\* The passive scroll ticks of the burst that the pending timer ends.
TickBurst(b) ==
    IF b = <<>> THEN <<[first |-> 0, last |-> 0]>>
    ELSE <<[first |-> b[1].first, last |-> 0]>>

----------------------------------------------------------------------------
(* Initial state: the component has mounted, not laid out yet, and its mount *)
(* effect has requested the animation frame that navigates to initialPage    *)

Init ==
    /\ props \in [layoutDirection : {"ltr", "rtl"},
                  orientation : {"horizontal", "vertical"},
                  pageMargin : Margins,
                  pageCount : PageCounts]
    /\ el = TRUE
    /\ clientWidth = 0
    /\ scrollLeft = 0
    /\ anim = {}
    /\ scrollPending = FALSE
    /\ captured = {}
    /\ bodyUserSelect = ""
    /\ cursor = IF props.orientation = "horizontal" THEN "grab" ELSE "default"
    /\ scrollEnabledRef = TRUE
    /\ draggingRef = FALSE
    /\ startRef = <<>>
    /\ restoreRef = <<>>
    /\ raf \in {<<[initialPage |-> i, pageCount |-> props.pageCount]>> : i \in InitialPages}
    /\ currentIndexRef = raf[1].initialPage
    /\ settleTimer = "null"
    /\ timers = <<>>
    /\ burst = <<>>
    /\ handler = <<>>
    /\ out = <<>>
    /\ lastState = "none"
    /\ lastSelected = <<>>

----------------------------------------------------------------------------
(* The imperative handle and the mount effect *)

\* requestAnimationFrame(() => scrollTo(initialPage, false)): never cancelled,
\* so it also runs after the element is gone.
InitialPageFrame ==
    /\ raf # <<>>
    /\ raf' = <<>>
    /\ scrollTo(<<"initialPage", raf[1].initialPage>>, raf[1].initialPage, FALSE,
                raf[1].pageCount, <<>>, <<>>)
    /\ UNCHANGED <<props, el, clientWidth, captured, bodyUserSelect, cursor,
                   scrollEnabledRef, draggingRef, startRef, restoreRef, settleTimer,
                   timers, burst>>

\* The handle is reachable (viewRef.current) only while the component is mounted.
setPage(index) ==
    /\ el
    /\ scrollTo(<<"setPage", index>>, index, TRUE, props.pageCount, <<>>, <<>>)
    /\ UNCHANGED <<props, el, clientWidth, captured, bodyUserSelect, cursor,
                   scrollEnabledRef, draggingRef, startRef, restoreRef, settleTimer,
                   timers, raf, burst>>

setPageWithoutAnimation(index) ==
    /\ el
    /\ scrollTo(<<"setPageWithoutAnimation", index>>, index, FALSE, props.pageCount,
                <<>>, <<>>)
    /\ UNCHANGED <<props, el, clientWidth, captured, bodyUserSelect, cursor,
                   scrollEnabledRef, draggingRef, startRef, restoreRef, settleTimer,
                   timers, raf, burst>>

setScrollEnabled(enabled) ==
    /\ el
    /\ scrollEnabledRef' = enabled
    /\ Deliver(<<"setScrollEnabled">>, <<>>)
    /\ UNCHANGED <<props, el, clientWidth, scrollLeft, anim, scrollPending, captured,
                   bodyUserSelect, cursor, draggingRef, startRef, restoreRef,
                   currentIndexRef, settleTimer, timers, raf, burst>>

----------------------------------------------------------------------------
(* Scroll events and the settle timer *)

\* Mutant: the scroll handler does not look at the orientation.
onScrollAnyOrientation ==
    /\ el
    /\ scrollPending
    /\ scrollPending' = FALSE
    /\ Deliver(<<"onScroll">>, emitPageScroll(scrollLeft))
    /\ IF ~draggingRef
       THEN /\ timers' = StartSettleTimer(timers)
            /\ settleTimer' = "live"
            /\ burst' = TickBurst(burst)
       ELSE UNCHANGED <<settleTimer, timers, burst>>
    /\ UNCHANGED <<props, el, clientWidth, scrollLeft, anim, captured,
                   bodyUserSelect, cursor, scrollEnabledRef, draggingRef, startRef,
                   restoreRef, currentIndexRef, raf>>

\* The element's 'scroll' event.
onScroll ==
    /\ el
    /\ scrollPending
    /\ scrollPending' = FALSE
    /\ IF ~Horizontal
       THEN /\ Deliver(<<"onScroll">>, <<>>)
            /\ UNCHANGED <<settleTimer, timers, burst>>
       ELSE /\ Deliver(<<"onScroll">>, emitPageScroll(scrollLeft))
            /\ IF ~draggingRef
               THEN /\ timers' = StartSettleTimer(timers)
                    /\ settleTimer' = "live"
                    /\ burst' = TickBurst(burst)
               ELSE UNCHANGED <<settleTimer, timers, burst>>
    /\ UNCHANGED <<props, el, clientWidth, scrollLeft, anim, captured,
                   bodyUserSelect, cursor, scrollEnabledRef, draggingRef, startRef,
                   restoreRef, currentIndexRef, raf>>

\* The callback of the timeout that startSettleTimer set, i-th of window's
\* pending timeouts. It runs whether or not the element is still attached:
\* getMetrics() then dereferences null.
SettleTimeout(i) ==
    /\ i \in 1 .. Len(timers)
    /\ timers[i].left = 0
    /\ timers' = SubSeq(timers, 1, i - 1) \o SubSeq(timers, i + 1, Len(timers))
    /\ settleTimer' = IF settleTimer = "live" /\ i = Len(timers) THEN "stale" ELSE settleTimer
    /\ burst' = <<>>
    /\ IF ~el
       THEN /\ Deliver(<<"settleTimeout">>, <<EState("settling"), EThrow>>)
            /\ NoScroll
            /\ UNCHANGED currentIndexRef
       ELSE snapToNearest(<<"settleTimeout">>, TRUE, timers[i].pageCount,
                          <<EState("settling")>>, <<EState("idle")>>)
    /\ UNCHANGED <<props, el, clientWidth, captured, bodyUserSelect, cursor,
                   scrollEnabledRef, draggingRef, startRef, restoreRef, raf>>

----------------------------------------------------------------------------
(* The gesture handlers. The user's input comes after the first animation   *)
(* frame.                                                                    *)

\* Mutant: pointer-down does not look at scrollEnabledRef.
onPointerDownAlways(p, x) ==
    /\ el
    /\ raf = <<>>
    /\ p \notin captured
    /\ \A q \in Pointers : q < p => q \in captured
    /\ IF ~Horizontal
       THEN /\ Deliver(<<"onPointerDown">>, <<>>)
            /\ UNCHANGED <<draggingRef, settleTimer, timers, burst, restoreRef,
                           bodyUserSelect, cursor, captured, startRef>>
       ELSE /\ draggingRef' = TRUE
            /\ Deliver(<<"onPointerDown">>, <<EState("dragging")>>)
            /\ timers' = ClearSettleTimer(timers)
            /\ settleTimer' = "null"
            /\ burst' = <<>>
            /\ restoreRef' = <<[userSelect |-> bodyUserSelect, cursor |-> cursor]>>
            /\ bodyUserSelect' = "none"
            /\ cursor' = "grabbing"
            /\ captured' = captured \cup {p}
            /\ startRef' = <<[x |-> x, sl |-> scrollLeft]>>
    /\ UNCHANGED <<props, el, clientWidth, scrollLeft, anim, scrollPending,
                   scrollEnabledRef, currentIndexRef, raf>>

\* Pointer p goes down on the element at clientX = x. A captured pointer is
\* down already; any other may have gone up outside the element. A new
\* pointer gets the least id that is free.
onPointerDown(p, x) ==
    /\ el
    /\ raf = <<>>
    /\ p \notin captured
    /\ \A q \in Pointers : q < p => q \in captured
    /\ IF ~Horizontal \/ ~scrollEnabledRef
       THEN /\ Deliver(<<"onPointerDown">>, <<>>)
            /\ UNCHANGED <<draggingRef, settleTimer, timers, burst, restoreRef,
                           bodyUserSelect, cursor, captured, startRef>>
       ELSE /\ draggingRef' = TRUE
            /\ Deliver(<<"onPointerDown">>, <<EState("dragging")>>)
            /\ timers' = ClearSettleTimer(timers)
            /\ settleTimer' = "null"
            /\ burst' = <<>>
            /\ restoreRef' = <<[userSelect |-> bodyUserSelect, cursor |-> cursor]>>
            /\ bodyUserSelect' = "none"
            /\ cursor' = "grabbing"
            /\ captured' = captured \cup {p}
            /\ startRef' = <<[x |-> x, sl |-> scrollLeft]>>
    /\ UNCHANGED <<props, el, clientWidth, scrollLeft, anim, scrollPending,
                   scrollEnabledRef, currentIndexRef, raf>>

\* start.sl - dx * dir
DragScrollLeft(start, x) == start.sl - (x - start.x) * (IF Rtl THEN 0 - 1 ELSE 1)

\* A pointer moves over the element to clientX = x.
onPointerMove(x) ==
    /\ el
    /\ raf = <<>>
    /\ IF ~Horizontal \/ ~draggingRef \/ startRef = <<>>
       THEN /\ Deliver(<<"onPointerMove">>, <<>>)
            /\ NoScroll
       ELSE /\ DomSetScrollLeft(DragScrollLeft(startRef[1], x))
            /\ Deliver(<<"onPointerMove">>,
                       emitPageScroll(ClampScroll(DragScrollLeft(startRef[1], x))))
    /\ UNCHANGED <<props, el, clientWidth, captured, bodyUserSelect, cursor,
                   scrollEnabledRef, draggingRef, startRef, restoreRef, currentIndexRef,
                   settleTimer, timers, raf, burst>>

\* Mutant: endDrag does not look at draggingRef.
endDragAnyTime(p) ==
    /\ el
    /\ raf = <<>>
    /\ captured' = captured \ {p}
    /\ IF ~Horizontal
       THEN /\ Deliver(<<"endDrag">>, <<>>)
            /\ NoScroll
            /\ UNCHANGED <<draggingRef, currentIndexRef, restoreRef, bodyUserSelect,
                           cursor, startRef>>
       ELSE /\ draggingRef' = FALSE
            /\ snapToNearest(<<"endDrag">>, TRUE, props.pageCount,
                             <<EState("settling")>>, <<EState("idle")>>)
            /\ IF restoreRef # <<>>
               THEN /\ bodyUserSelect' = restoreRef[1].userSelect
                    /\ cursor' = restoreRef[1].cursor
                    /\ restoreRef' = <<>>
               ELSE UNCHANGED <<bodyUserSelect, cursor, restoreRef>>
            /\ startRef' = <<>>
    /\ UNCHANGED <<props, el, clientWidth, scrollEnabledRef, settleTimer, timers, raf,
                   burst>>

\* endDrag(e) for pointer p, captured or not (a pointer that went down outside
\* the element goes up over it). After the event the browser drops the capture
\* of the pointer that went up, whatever the handler did.
endDrag(p) ==
    /\ el
    /\ raf = <<>>
    /\ captured' = captured \ {p}
    /\ IF ~Horizontal \/ ~draggingRef
       THEN /\ Deliver(<<"endDrag">>, <<>>)
            /\ NoScroll
            /\ UNCHANGED <<draggingRef, currentIndexRef, restoreRef, bodyUserSelect,
                           cursor, startRef>>
       ELSE /\ draggingRef' = FALSE
            /\ snapToNearest(<<"endDrag">>, TRUE, props.pageCount,
                             <<EState("settling")>>, <<EState("idle")>>)
            /\ IF restoreRef # <<>>
               THEN /\ bodyUserSelect' = restoreRef[1].userSelect
                    /\ cursor' = restoreRef[1].cursor
                    /\ restoreRef' = <<>>
               ELSE UNCHANGED <<bodyUserSelect, cursor, restoreRef>>
            /\ startRef' = <<>>
    /\ UNCHANGED <<props, el, clientWidth, scrollEnabledRef, settleTimer, timers, raf,
                   burst>>

onPointerUp(p) == endDrag(p)

onPointerCancel(p) == endDrag(p)

----------------------------------------------------------------------------
(* The environment: the browser and the host *)

\* Wheel, trackpad or focus moves the scroll position (in a column only the
\* vertical position, which the component never reads) while no drag is on.
PassiveScroll(v) ==
    /\ el
    /\ raf = <<>>
    /\ ~draggingRef
    /\ v \in ScrollRange
    /\ Horizontal => v # scrollLeft
    /\ scrollLeft' = v
    /\ anim' = {}
    /\ scrollPending' = TRUE
    /\ UNCHANGED <<props, el, clientWidth, captured, bodyUserSelect, cursor,
                   scrollEnabledRef, draggingRef, startRef, restoreRef, currentIndexRef,
                   settleTimer, timers, raf, burst>>
    /\ Quiet

\* One frame of the smooth scroll in progress: the position moves half the
\* way to the target, or onto it.
AnimationFrame(v) ==
    /\ el
    /\ anim # {}
    /\ \E t \in anim :
          /\ v # scrollLeft
          /\ v \in {t, (t + scrollLeft) \div 2}
          /\ anim' = IF v = t THEN {} ELSE anim
    /\ scrollLeft' = v
    /\ scrollPending' = TRUE
    /\ UNCHANGED <<props, el, clientWidth, captured, bodyUserSelect, cursor,
                   scrollEnabledRef, draggingRef, startRef, restoreRef, currentIndexRef,
                   settleTimer, timers, raf, burst>>
    /\ Quiet

Older(b) ==
    IF b = <<>> THEN b
    ELSE <<[first |-> Min(AgeCap, b[1].first + TimeStep),
            last |-> Min(AgeCap, b[1].last + TimeStep)]>>

\* Time passes. Frames (a scroll event owed, a smooth scroll in progress, the
\* mount effect's animation frame) come sooner than one step of time, and a
\* timeout runs when it is due.
Tick ==
    /\ raf = <<>>
    /\ el => (~scrollPending /\ anim = {})
    /\ \A i \in 1 .. Len(timers) : timers[i].left >= TimeStep
    /\ timers # <<>>
    /\ timers' = [i \in 1 .. Len(timers) |-> [timers[i] EXCEPT !.left = @ - TimeStep]]
    /\ burst' = Older(burst)
    /\ UNCHANGED <<props, el, clientWidth, scrollLeft, anim, scrollPending, captured,
                   bodyUserSelect, cursor, scrollEnabledRef, draggingRef, startRef,
                   restoreRef, currentIndexRef, settleTimer, raf>>
    /\ Quiet

\* The viewport, not laid out so far, is laid out.
Layout(w) ==
    /\ el
    /\ clientWidth = 0
    /\ w # clientWidth
    /\ clientWidth' = w
    /\ scrollLeft' = ClampScrollOf(scrollLeft, w, props.pageCount)
    /\ anim' = {ClampScrollOf(t, w, props.pageCount) : t \in anim}
                  \ {ClampScrollOf(scrollLeft, w, props.pageCount)}
    /\ scrollPending' = (scrollPending \/ ClampScrollOf(scrollLeft, w, props.pageCount) # scrollLeft)
    /\ UNCHANGED <<props, el, captured, bodyUserSelect, cursor, scrollEnabledRef,
                   draggingRef, startRef, restoreRef, currentIndexRef, settleTimer,
                   timers, raf, burst>>
    /\ Quiet

\* The host renders the pager with n pages.
Render(n) ==
    /\ el
    /\ n # props.pageCount
    /\ props' = [props EXCEPT !.pageCount = n]
    /\ scrollLeft' = ClampScrollOf(scrollLeft, clientWidth, n)
    /\ anim' = {ClampScrollOf(t, clientWidth, n) : t \in anim}
                  \ {ClampScrollOf(scrollLeft, clientWidth, n)}
    /\ scrollPending' = (scrollPending \/ ClampScrollOf(scrollLeft, clientWidth, n) # scrollLeft)
    /\ UNCHANGED <<el, clientWidth, captured, bodyUserSelect, cursor,
                   scrollEnabledRef, draggingRef, startRef, restoreRef, currentIndexRef,
                   settleTimer, timers, raf, burst>>
    /\ Quiet

\* The component unmounts: React detaches the ref; nothing the component
\* scheduled is cancelled.
Unmount ==
    /\ el
    /\ el' = FALSE
    /\ anim' = {}
    /\ scrollPending' = FALSE
    /\ captured' = {}
    /\ UNCHANGED <<props, clientWidth, scrollLeft, bodyUserSelect, cursor,
                   scrollEnabledRef, draggingRef, startRef, restoreRef, currentIndexRef,
                   settleTimer, timers, raf, burst>>
    /\ Quiet

----------------------------------------------------------------------------

Next ==
    \/ InitialPageFrame
    \/ \E index \in Indices : setPage(index)
    \/ \E index \in Indices : setPageWithoutAnimation(index)
    \/ \E enabled \in BOOLEAN : setScrollEnabled(enabled)
    \/ onScroll
    \/ \E i \in 1 .. Len(timers) : SettleTimeout(i)
    \/ \E p \in Pointers, x \in DownXs : onPointerDown(p, x)
    \/ \E x \in ClientXs : onPointerMove(x)
    \/ \E p \in Pointers : onPointerUp(p)
    \/ \E p \in Pointers : onPointerCancel(p)
    \/ \E v \in ScrollRange : PassiveScroll(v)
    \/ \E v \in ScrollRange : AnimationFrame(v)
    \/ Tick
    \/ \E w \in Extents : Layout(w)
    \/ \E n \in PageCounts : Render(n)
    \/ Unmount

Spec == Init /\ [][Next]_vars

----------------------------------------------------------------------------
(* What the claims speak of, stated without the operators that model the    *)
(* code.                                                                    *)

\* index clamped into [0, max(0, n - 1)]
ClampedIndex(k, n) ==
    IF k < 0 THEN 0
    ELSE IF n <= 0 THEN 0
    ELSE IF k > n - 1 THEN n - 1
    ELSE k

\* The integer r with r - 1/2 <= raw / step < r + 1/2.
NearestPage(raw, step) ==
    CHOOSE r \in 0 .. (MaxPages + 2) :
        /\ 2 * r * step <= 2 * raw + step
        /\ 2 * raw + step < 2 * (r + 1) * step

\* An offset with the sign of the layout direction.
Signed(pos) == IF Rtl THEN 0 - pos ELSE pos

\* onPageSelected events of a navigation that resolves to page t.
ExpectedSelected(t) == IF t # currentIndexRef THEN <<ESelected(t)>> ELSE <<>>

\* The page a release or a settle timer of a render with n pages snaps to.
SnapTarget(n) == ClampedIndex(NearestPage(Raw, Step), n)

PageScrollOf(o) == SelectSeq2(o, "pageScroll")

Threw(o) == SelectSeq2(o, "throw") # <<>>

----------------------------------------------------------------------------
(* C1 *)

\* C1: when a drag on a laid-out pager (step > 0) is released, by pointer-up
\* or pointer-cancel, the handler issues exactly one scroll command, smooth,
\* to round(raw / step) clamped to [0, pageCount - 1], times step, negated
\* under RTL, where raw is the absolute scroll offset at release; and it
\* delivers onPageSelected once, for that page, when the page differs from
\* the committed one.
C1_ReleaseSnapsToNearestPage ==
    [][(draggingRef /\ ~draggingRef' /\ Step > 0) =>
          /\ CommandsOf(out') =
                <<EScrollTo(Signed(SnapTarget(props.pageCount) * Step), "smooth")>>
          /\ SelectSeq2(out', "selected") = ExpectedSelected(SnapTarget(props.pageCount))]_vars

\* A drag was released between two page boundaries, past the middle, with
\* page 0 committed: the command goes to page 1 and onPageSelected(1) is
\* delivered once.
C1_Witness ==
    /\ handler = <<"endDrag">>
    /\ Step > 0
    /\ Raw % Step # 0
    /\ Raw < Step
    /\ SelectedOf(out) = <<1>>
    /\ Len(CommandsOf(out)) = 1
    /\ CommandsOf(out)[1].left = Signed(Step)

----------------------------------------------------------------------------
(* C2 *)

\* The handler that has just run is the imperative method m with argument k.
Called(m, k) == handler' = <<m, k>>

\* The mount effect's animation frame has just run.
InitialPageRan == raf # <<>> /\ raf' = <<>>

\* A settle timer has just fired.
TimerFired == Len(timers') < Len(timers) /\ handler' = <<"settleTimeout">>

\* What C2 says of each navigation call; attachedOnly restricts the mount
\* effect's call to the calls that find the element attached.
C2_Calls(attachedOnly) ==
    /\ \A k \in Indices :
          (Called("setPage", k) \/ Called("setPageWithoutAnimation", k)) =>
              SelectSeq2(out', "selected") = ExpectedSelected(ClampedIndex(k, props.pageCount))
    /\ (InitialPageRan /\ (attachedOnly => el)) =>
          SelectSeq2(out', "selected")
              = ExpectedSelected(ClampedIndex(raf[1].initialPage, raf[1].pageCount))
    /\ (draggingRef /\ ~draggingRef' /\ Step > 0) =>
          SelectSeq2(out', "selected") = ExpectedSelected(SnapTarget(props.pageCount))
    /\ (TimerFired /\ el /\ Step > 0) =>
          \E i \in 1 .. Len(timers) :
              /\ timers[i].left = 0
              /\ SelectSeq2(out', "selected")
                    = ExpectedSelected(SnapTarget(timers[i].pageCount))
    /\ SelectedOf(out') # <<>> => SelectedOf(out') # lastSelected

\* C2 as claimed: every navigation call (setPage, setPageWithoutAnimation, a
\* drag release, a settle timer, the initial-page navigation) delivers
\* onPageSelected if and only if its clamped index differs from the committed
\* index, with that index; no two consecutive events carry the same index.
C2_Original == [][C2_Calls(FALSE)]_vars

\* C2 as amended: the same of every navigation call that finds the scroller
\* element attached; the initial-page navigation that runs after the element
\* was detached delivers nothing.
C2_SelectedIffIndexChanges ==
    [][/\ C2_Calls(TRUE)
       /\ (InitialPageRan /\ ~el) => out' = <<>>]_vars

\* A navigation to another page has delivered onPageSelected for it.
C2_Witness ==
    /\ handler # <<>>
    /\ handler[1] = "setPageWithoutAnimation"
    /\ SelectedOf(out) = <<currentIndexRef>>
    /\ lastSelected = <<currentIndexRef>>

----------------------------------------------------------------------------
(* C3 *)

StateOrder ==
    {<<"none", "dragging">>, <<"none", "settling">>, <<"idle", "dragging">>,
     <<"idle", "settling">>, <<"dragging", "settling">>, <<"settling", "idle">>}

InOrder(s) == \A k \in 1 .. (Len(s) - 1) : <<s[k], s[k + 1]>> \in StateOrder

\* C3: the onPageScrollStateChanged events come as groups 'dragging,
\* settling, idle' and 'settling, idle': each event follows its predecessor
\* in that order, and no handler ends on a 'settling' without its 'idle'.
C3_StateEventsInOrder ==
    [][/\ InOrder(<<lastState>> \o StatesOf(out'))
       /\ lastState' # "settling"]_vars

----------------------------------------------------------------------------
(* C4 *)

\* C4: at most one settle timer is pending; a passive scroll tick leaves
\* exactly one, with the whole window ahead; and a timer that fires does so
\* one window after the last tick of its burst and delivers 'settling', one
\* snap command, 'idle'.
C4_Debounce ==
    [][/\ Len(timers') <= 1
       /\ (onScroll /\ Horizontal /\ ~draggingRef) =>
             timers' = <<[left |-> SettleDelay, pageCount |-> props.pageCount]>>
       /\ \A i \in 1 .. Len(timers) :
             SettleTimeout(i) =>
                 /\ burst # <<>>
                 /\ burst[1].last = SettleDelay
                 /\ StatesOf(out') = <<"settling", "idle">>
                 /\ Len(CommandsOf(out')) = 1]_vars

----------------------------------------------------------------------------
(* C5 *)

\* C5: once the initial-page navigation has run on the attached element,
\* 0 <= lastCommittedIndex <= max(0, pageCount - 1) for the current pageCount.
C5_IndexInRange ==
    (el /\ raf = <<>>) =>
        (0 <= currentIndexRef /\ currentIndexRef <= Max(0, props.pageCount - 1))

----------------------------------------------------------------------------
(* C6 *)

\* C6: setPage(k) and setPageWithoutAnimation(k), for k below 0, in range or
\* above pageCount - 1, throw nothing and navigate to k clamped into
\* [0, max(0, pageCount - 1)]: one scroll command to that page, which becomes
\* the committed index.
C6_SetPageClamps ==
    [][\A k \in Indices :
          /\ Called("setPage", k) =>
                /\ out' = <<EScrollTo(Signed(ClampedIndex(k, props.pageCount) * Step),
                                      "smooth")>>
                          \o ExpectedSelected(ClampedIndex(k, props.pageCount))
                /\ currentIndexRef' = ClampedIndex(k, props.pageCount)
          /\ Called("setPageWithoutAnimation", k) =>
                /\ out' = <<EScrollTo(Signed(ClampedIndex(k, props.pageCount) * Step),
                                      "auto")>>
                          \o ExpectedSelected(ClampedIndex(k, props.pageCount))
                /\ currentIndexRef' = ClampedIndex(k, props.pageCount)]_vars

\* setPage with an index above the last page has navigated to the last page.
C6_Witness ==
    /\ handler = <<"setPage", MaxPages + 1>>
    /\ props.pageCount = MaxPages
    /\ currentIndexRef = MaxPages - 1
    /\ SelectedOf(out) = <<MaxPages - 1>>
    /\ ~Threw(out)

----------------------------------------------------------------------------
(* C7 *)

\* C7 as claimed: setPage(k) or setPageWithoutAnimation(k) with the committed
\* index already clamp(k) issues a scroll command to k * step, delivers no
\* onPageSelected and leaves the committed index as it is.
C7_Original ==
    [][\A k \in Indices :
          ((Called("setPage", k) \/ Called("setPageWithoutAnimation", k))
              /\ currentIndexRef = ClampedIndex(k, props.pageCount)) =>
              /\ Len(CommandsOf(out')) = 1
              /\ Abs(CommandsOf(out')[1].left) = k * Step
              /\ SelectedOf(out') = <<>>
              /\ currentIndexRef' = currentIndexRef]_vars

\* C7 as amended: the scroll command goes to clamp(k) * step, negated under
\* RTL; the rest as claimed.
C7_Idempotent ==
    [][\A k \in Indices :
          ((Called("setPage", k) \/ Called("setPageWithoutAnimation", k))
              /\ currentIndexRef = ClampedIndex(k, props.pageCount)) =>
              /\ Len(CommandsOf(out')) = 1
              /\ CommandsOf(out')[1].left = Signed(ClampedIndex(k, props.pageCount) * Step)
              /\ SelectedOf(out') = <<>>
              /\ currentIndexRef' = currentIndexRef]_vars

\* setPage with an index above the last page, the last page being committed
\* already: a command to the last page and no onPageSelected.
C7_Witness ==
    /\ handler = <<"setPage", MaxPages + 1>>
    /\ Step > 0
    /\ currentIndexRef = props.pageCount - 1
    /\ currentIndexRef >= 1
    /\ SelectedOf(out) = <<>>
    /\ Len(CommandsOf(out)) = 1
    /\ CommandsOf(out)[1].left = Signed(currentIndexRef * Step)

----------------------------------------------------------------------------
(* C8 *)

\* C8: while the viewport is not laid out (extent = 0), setPage,
\* setPageWithoutAnimation, scroll reporting and the snap deliver no
\* onPageScroll and no onPageSelected and leave the committed index as it is.
C8_NotLaidOutNoOps ==
    [][(/\ clientWidth = 0
        /\ \/ \E k \in Indices : setPage(k) \/ setPageWithoutAnimation(k)
           \/ onScroll
           \/ \E x \in ClientXs : onPointerMove(x)
           \/ \E p \in Pointers : endDrag(p)
           \/ \E i \in 1 .. Len(timers) : SettleTimeout(i)) =>
          /\ PageScrollOf(out') = <<>>
          /\ SelectedOf(out') = <<>>
          /\ currentIndexRef' = currentIndexRef]_vars

----------------------------------------------------------------------------
(* C9 *)

\* C9: whenever no drag is on, the body's user-select and the scroller's
\* cursor have the values they had before the drag session began.
C9_VisualStateRestored ==
    ~draggingRef =>
        /\ bodyUserSelect = ""
        /\ cursor = IF Horizontal THEN "grab" ELSE "default"

----------------------------------------------------------------------------
(* C10 *)

\* C10: whenever no drag is on, no pointer is captured; and the up or cancel
\* that ends a drag is that of a captured pointer.
C10_NoCaptureLeak ==
    [][/\ ~draggingRef' => captured' = {}
       /\ \A p \in Pointers :
             (endDrag(p) /\ draggingRef /\ ~draggingRef') => p \in captured]_vars

----------------------------------------------------------------------------
(* C11 *)

\* C11: while scrollEnabledRef is false no step starts a drag (draggingRef
\* does not become true, no pointer is captured, no drag session is stored,
\* no 'dragging' is delivered); setScrollEnabled changes nothing of a drag in
\* progress; and with gestures disabled during a drag the pointer-moves still
\* set the scroll offset from the session and the release still delivers
\* 'settling', the snap command, 'idle'.
C11_DisabledStartsNoDrag ==
    [][/\ ~scrollEnabledRef =>
             /\ draggingRef' => draggingRef
             /\ captured' \subseteq captured
             /\ startRef' \in {startRef, <<>>}
             /\ \A i \in 1 .. Len(StatesOf(out')) : StatesOf(out')[i] # "dragging"
       /\ scrollEnabledRef' # scrollEnabledRef =>
             /\ UNCHANGED <<draggingRef, startRef, restoreRef, captured, scrollLeft,
                            anim, timers, currentIndexRef>>
             /\ out' = <<>>
       /\ (draggingRef /\ ~scrollEnabledRef /\ handler' = <<"onPointerMove">>) =>
             /\ draggingRef'
             /\ \E x \in ClientXs :
                   scrollLeft' = ClampScroll(startRef[1].sl
                                                - (x - startRef[1].x) * (IF Rtl THEN 0 - 1 ELSE 1))
       /\ (draggingRef /\ ~draggingRef' /\ ~scrollEnabledRef) =>
             /\ StatesOf(out') = <<"settling", "idle">>
             /\ Step > 0 =>
                   CommandsOf(out')
                       = <<EScrollTo(Signed(SnapTarget(props.pageCount) * Step), "smooth")>>]_vars

\* Gestures were disabled during a drag, a pointer-move has still moved the
\* scroll offset, and no second drag session has replaced the first.
C11_Witness ==
    /\ draggingRef
    /\ ~scrollEnabledRef
    /\ handler = <<"onPointerMove">>
    /\ startRef # <<>>
    /\ scrollLeft # startRef[1].sl
    /\ Cardinality(captured) = 1

----------------------------------------------------------------------------
(* C13 *)

\* C13: deferred work clamps with the page count current when it runs: a
\* settle timer that fires (element attached, step > 0) commands the nearest
\* page clamped to [0, pageCount - 1] of the latest render, and the
\* initial-page navigation commands initialPage clamped likewise.
C13_CurrentPageCount ==
    [][/\ (TimerFired /\ el /\ Step > 0) =>
             CommandsOf(out')
                 = <<EScrollTo(Signed(SnapTarget(props.pageCount) * Step), "smooth")>>
       /\ (InitialPageRan /\ el) =>
             CommandsOf(out')
                 = <<EScrollTo(Signed(ClampedIndex(raf[1].initialPage, props.pageCount) * Step),
                               "auto")>>]_vars

----------------------------------------------------------------------------
(* C16 *)

\* C16: no handler, timer callback or frame callback raises, whether or not
\* the element is attached.
C16_NothingThrows == ~Threw(out)

----------------------------------------------------------------------------
(* C19 *)

\* C19: while a drag is in progress no settle timer is pending (window holds
\* no timeout of the component and settleTimer.current names none), and no
\* timer callback runs.
C19_NoTimerWhileDragging ==
    [][/\ draggingRef' => (timers' = <<>> /\ settleTimer' # "live")
       /\ draggingRef => handler' # <<"settleTimeout">>]_vars

\* A pointer-down has cancelled the timer that a passive scroll tick had
\* started.
C19_Witness ==
    /\ draggingRef
    /\ handler = <<"onPointerDown">>
    /\ settleTimer = "null"
    /\ timers = <<>>
    /\ lastState = "dragging"
    /\ scrollLeft # 0
    /\ anim = {}
    /\ ~scrollPending
    /\ scrollLeft # Signed(currentIndexRef * Step)

----------------------------------------------------------------------------
(* C20 *)

\* C20: on a laid-out pager, a settle timer of the current render that fires
\* right after setPage(k) or setPageWithoutAnimation(k), nothing having
\* happened in between, leaves
\* the committed index at clamp(k), delivers no onPageSelected and commands
\* the page that the call commanded.
C20_NavigationNotUndone ==
    [][\A k \in Indices :
          ((handler = <<"setPage", k>> \/ handler = <<"setPageWithoutAnimation", k>>)
              /\ TimerFired /\ el /\ clientWidth > 0
              /\ timers[1].pageCount = props.pageCount) =>
              /\ currentIndexRef' = currentIndexRef
              /\ SelectedOf(out') = <<>>
              /\ \A i \in 1 .. Len(CommandsOf(out')) :
                    CommandsOf(out')[i].left = Signed(currentIndexRef * Step)]_vars

----------------------------------------------------------------------------
(* C15 *)

\* The element's 'scroll' event has just been handled.
ScrollTicked == el /\ el' /\ scrollPending /\ ~scrollPending'

\* o is one onPageScroll event for the absolute offset raw: an integer
\* position >= 0 with position <= raw / step < position + 1, and the offset
\* raw / step - position, carried as the fraction num / den, in [0, 1].
OnePageScroll(o, raw) ==
    /\ Len(o) = 1
    /\ o[1].position >= 0
    /\ o[1].position * Step <= raw
    /\ raw < (o[1].position + 1) * Step
    /\ o[1].den = Step
    /\ o[1].num = raw - o[1].position * Step
    /\ 0 <= o[1].num
    /\ o[1].num <= o[1].den

\* What C15 says of the scroll ticks of the orientations in the set given,
\* and of the pointer-moves of a drag.
C15_Ticks(orientations) ==
    /\ (ScrollTicked /\ props.orientation \in orientations) =>
          IF Step > 0 THEN OnePageScroll(PageScrollOf(out'), Raw)
          ELSE PageScrollOf(out') = <<>>
    /\ handler' = <<"onPointerMove">> =>
          /\ draggingRef
          /\ Step > 0
          /\ OnePageScroll(PageScrollOf(out'), Abs(scrollLeft'))
    /\ (draggingRef /\ Horizontal /\ Step > 0 /\ el /\ raf = <<>>
            /\ handler' # <<"onPointerMove">>) =>
          \A x \in ClientXs : ~onPointerMove(x)
    /\ Step = 0 => PageScrollOf(out') = <<>>

\* C15 as claimed: every scroll tick and every pointer-move of a drag, with
\* step > 0, delivers exactly one onPageScroll with position =
\* floor(raw / step) >= 0 and offset = raw / step - position in [0, 1]; with
\* step = 0 none is delivered.
C15_Original == [][C15_Ticks({"horizontal", "vertical"})]_vars

\* C15 as amended: the same of a pager of horizontal orientation.
C15_PageScrollOnEveryTick == [][C15_Ticks({"horizontal"})]_vars

\* A pointer-move of a drag has left the offset between two page boundaries
\* and reported it.
C15_Witness ==
    /\ handler = <<"onPointerMove">>
    /\ Step > 0
    /\ Raw % Step # 0
    /\ Len(PageScrollOf(out)) = 1
    /\ PageScrollOf(out)[1].num = Raw % Step
    /\ PageScrollOf(out)[1].num > 0

----------------------------------------------------------------------------
(* C17 *)

\* C17: in an orientation other than horizontal no step starts a drag or a
\* settle timer, captures a pointer or stores a session; no
\* onPageScrollStateChanged and no onPageScroll is delivered; the scroll
\* offset changes only by a scroll command; and setPage and
\* setPageWithoutAnimation issue their command and deliver onPageSelected
\* when the index changes.
C17_VerticalGesturesOff ==
    [][~Horizontal =>
          /\ ~draggingRef'
          /\ captured' = {}
          /\ startRef' = <<>>
          /\ restoreRef' = <<>>
          /\ timers' = <<>>
          /\ settleTimer' = "null"
          /\ StatesOf(out') = <<>>
          /\ PageScrollOf(out') = <<>>
          /\ lastState' = "none"
          /\ scrollLeft' # scrollLeft => CommandsOf(out') # <<>>
          /\ CommandsOf(out') # <<>> =>
                handler'[1] \in {"setPage", "setPageWithoutAnimation", "initialPage"}
          /\ \A k \in Indices :
                /\ Called("setPage", k) =>
                      out' = <<EScrollTo(Signed(ClampedIndex(k, props.pageCount) * Step),
                                         "smooth")>>
                             \o ExpectedSelected(ClampedIndex(k, props.pageCount))
                /\ Called("setPageWithoutAnimation", k) =>
                      out' = <<EScrollTo(Signed(ClampedIndex(k, props.pageCount) * Step),
                                         "auto")>>
                             \o ExpectedSelected(ClampedIndex(k, props.pageCount))]_vars

\* A laid-out vertical pager has navigated to page 1 by setPage.
C17_Witness ==
    /\ ~Horizontal
    /\ clientWidth > 0
    /\ raf = <<>>
    /\ handler = <<"setPage", 1>>
    /\ SelectedOf(out) = <<1>>
    /\ currentIndexRef = 1
    /\ lastState = "none"

----------------------------------------------------------------------------
(* C18 *)

\* C18: a pointer-move, or a pointer-up or pointer-cancel (both run endDrag),
\* handled while no drag is on changes neither the scroll offset, the committed index, the drag
\* session, the saved visual state nor the settle timer, and delivers
\* nothing.
C18_NoDragNoOp ==
    [][~draggingRef =>
          /\ handler' # <<"onPointerMove">>
          /\ handler' # <<"endDrag">>
          /\ (/\ handler' = <<>>
              /\ UNCHANGED <<props, el, clientWidth, scrollEnabledRef, raf, burst>>
              /\ \/ \E x \in ClientXs : onPointerMove(x)
                 \/ \E p \in Pointers : endDrag(p)) =>
                /\ UNCHANGED <<scrollLeft, anim, scrollPending, currentIndexRef,
                               draggingRef, startRef, restoreRef, bodyUserSelect, cursor,
                               settleTimer, timers>>
                /\ out' = <<>>]_vars

\* Two pointers went down, the first to go up ended the drag and the second
\* has gone up with no drag on.
C18_Witness ==
    /\ el
    /\ ~draggingRef
    /\ captured = {}
    /\ bodyUserSelect = "none"
    /\ restoreRef = <<>>
    /\ out = <<>>

----------------------------------------------------------------------------
(* C14 *)

\* A pager mounted with initialPage = 0 whose host does nothing but call
\* setPageWithoutAnimation, on the laid-out pager and after the initial-page
\* navigation: no pointer, no wheel, no setPage, no re-render. Whatever the
\* component does then follows from those calls.
JumpInit == Init /\ currentIndexRef = 0

JumpNext ==
    \/ InitialPageFrame
    \/ \E w \in Extents : Layout(w)
    \/ raf = <<>> /\ clientWidth > 0 /\ \E index \in Indices : setPageWithoutAnimation(index)
    \/ onScroll
    \/ \E i \in 1 .. Len(timers) : SettleTimeout(i)
    \/ Tick

JumpSpec == JumpInit /\ [][JumpNext]_vars

\* C14: setPageWithoutAnimation(k) issues one non-animated command to
\* clamp(k) * step, negated under RTL, and delivers onPageSelected once when
\* the clamped index differs from the committed one; and neither the call
\* nor anything that follows from it delivers an onPageScrollStateChanged
\* event.
C14_JumpNoStateEvents ==
    [][/\ \A k \in Indices :
             Called("setPageWithoutAnimation", k) =>
                 out' = <<EScrollTo(Signed(ClampedIndex(k, props.pageCount) * Step), "auto")>>
                        \o ExpectedSelected(ClampedIndex(k, props.pageCount))
       /\ StatesOf(out') = <<>>]_vars

----------------------------------------------------------------------------
(* C12 *)

\* A horizontal pager that is laid out when it mounts, whose page count stays
\* as it is and which stays mounted.
RestInit ==
    /\ props \in [layoutDirection : {"ltr", "rtl"},
                  orientation : {"horizontal"},
                  pageMargin : Margins,
                  pageCount : PageCounts]
    /\ el = TRUE
    /\ clientWidth \in Extents \ {0}
    /\ scrollLeft = 0
    /\ anim = {}
    /\ scrollPending = FALSE
    /\ captured = {}
    /\ bodyUserSelect = ""
    /\ cursor = "grab"
    /\ scrollEnabledRef = TRUE
    /\ draggingRef = FALSE
    /\ startRef = <<>>
    /\ restoreRef = <<>>
    /\ raf \in {<<[initialPage |-> i, pageCount |-> props.pageCount]>> : i \in InitialPages}
    /\ currentIndexRef = raf[1].initialPage
    /\ settleTimer = "null"
    /\ timers = <<>>
    /\ burst = <<>>
    /\ handler = <<>>
    /\ out = <<>>
    /\ lastState = "none"
    /\ lastSelected = <<>>

\* What the user and the host do: drags, wheel scrolls, navigation calls.
Input ==
    \/ \E index \in Indices : setPage(index)
    \/ \E index \in Indices : setPageWithoutAnimation(index)
    \/ \E p \in Pointers, x \in DownXs : onPointerDown(p, x)
    \/ \E x \in ClientXs : onPointerMove(x)
    \/ \E p \in Pointers : onPointerUp(p)
    \/ \E p \in Pointers : onPointerCancel(p)
    \/ \E v \in ScrollRange : PassiveScroll(v)

\* What the browser runs by itself: frames, scroll events, timeouts, time.
Frames == \E v \in ScrollRange : AnimationFrame(v)

Timeouts == \E i \in 1 .. Len(timers) : SettleTimeout(i)

RestNext == Input \/ InitialPageFrame \/ onScroll \/ Frames \/ Timeouts \/ Tick

\* The browser runs every frame, scroll event and timeout that is due, and
\* time passes while a timeout is pending.
RestSpec ==
    /\ RestInit
    /\ [][RestNext]_vars
    /\ WF_vars(InitialPageFrame)
    /\ WF_vars(onScroll)
    /\ WF_vars(Frames)
    /\ WF_vars(Timeouts)
    /\ WF_vars(Tick)

\* Quiescent on the boundary of the committed page.
AtRest ==
    /\ ~draggingRef
    /\ raf = <<>>
    /\ timers = <<>>
    /\ anim = {}
    /\ ~scrollPending
    /\ scrollLeft = Signed(currentIndexRef * Step)
    /\ 0 <= currentIndexRef
    /\ currentIndexRef <= Max(0, props.pageCount - 1)

\* C12: on a laid-out horizontal pager, unless input goes on for ever or a
\* drag is held for ever, the pager comes to rest: not dragging, no settle
\* timer pending, no scroll in progress, and the scroll offset exactly
\* lastCommittedIndex * step, negated under RTL.
C12_ComesToRest == []<><<Input>>_vars \/ <>[]draggingRef \/ <>[]AtRest

\* The pager has come to rest on page 1 after a settle.
C12_Witness ==
    /\ AtRest
    /\ Step > 0
    /\ currentIndexRef = 1
    /\ lastState = "idle"
    /\ handler = <<"settleTimeout">>

====
